---------------------------- MODULE Spec2Model ----------------------------
(***************************************************************************)
(* A model of the recursive-descent JSON parser of src/src/main.rs.        *)
(*                                                                         *)
(* Text is a sequence of characters, each character a one-character        *)
(* string; the control characters TLA+ cannot write are named by their     *)
(* code point ("U+0008", "U+0001").  A &str slice of the input is a        *)
(* suffix of that sequence.  Every rule is an operator from the remaining  *)
(* input to an IResult record, computed the way the nom combinators of the *)
(* source compute it.                                                      *)
(***************************************************************************)
EXTENDS Integers, Sequences, FiniteSets, TLC

(***************************************************************************)
(* Characters                                                              *)
(***************************************************************************)
QUOTE == "\""
BACKSLASH == "\\"
BS == "U+0008"
FF == "\f"
CTRL1 == "U+0001"

\* nom::character::complete::multispace0 accepts ' ', '\t', '\r', '\n'
WS == {" ", "\t", "\r", "\n"}

Digits == <<"0", "1", "2", "3", "4", "5", "6", "7", "8", "9">>
DigitSet == {Digits[k] : k \in 1..10}
DigitVal(c) == (CHOOSE k \in 1..10 : Digits[k] = c) - 1

Max(a, b) == IF a >= b THEN a ELSE b

(***************************************************************************)
(* serde_json::Value.  One record shape for the six variants, the fields   *)
(* a variant does not carry left at a fixed default.                       *)
(***************************************************************************)
NoNum == [cls |-> "none", neg |-> FALSE, mant |-> <<>>, exp |-> 0]

Blank == [t |-> "Null", b |-> FALSE, n |-> NoNum, s |-> <<>>, a |-> <<>>, o |-> <<>>]

ValueNull == Blank
ValueBool(x) == [Blank EXCEPT !.t = "Bool", !.b = x]
ValueNumber(x) == [Blank EXCEPT !.t = "Number", !.n = x]
ValueString(cs) == [Blank EXCEPT !.t = "String", !.s = cs]
ValueArray(vs) == [Blank EXCEPT !.t = "Array", !.a = vs]
ValueObject(m) == [Blank EXCEPT !.t = "Object", !.o = m]

(***************************************************************************)
(* nom::IResult<&str, Value>.  tag is "Ok", "Error" (Err::Error,           *)
(* recoverable), "Failure" (Err::Failure, raised by cut) or "Panic" (an    *)
(* unwrap on None aborted the call).  rest is the remaining input of a     *)
(* success and the slice the error points at of a failure; code is the     *)
(* nom ErrorKind.  depth and steps are measures of the evaluation: depth   *)
(* is the deepest nesting of parse_primary invocations made while          *)
(* computing the result, steps is TRUE when every repetition iteration     *)
(* consumed a character and every recursive call got a shorter input.      *)
(***************************************************************************)
Ok(rest, out, depth, steps) ==
    [tag |-> "Ok", rest |-> rest, out |-> out, code |-> "", depth |-> depth, steps |-> steps]
Error(at, code, depth, steps) ==
    [tag |-> "Error", rest |-> at, out |-> Blank, code |-> code, depth |-> depth, steps |-> steps]
Failure(at, code, depth, steps) ==
    [tag |-> "Failure", rest |-> at, out |-> Blank, code |-> code, depth |-> depth, steps |-> steps]
Panic(depth, steps) ==
    [tag |-> "Panic", rest |-> <<>>, out |-> Blank, code |-> "", depth |-> depth, steps |-> steps]

IsOk(r) == r.tag = "Ok"
\* a returned Err(..): what the source's match arm `Err(e)` receives
IsErr(r) == r.tag \in {"Error", "Failure"}

(***************************************************************************)
(* Leaf combinators                                                        *)
(***************************************************************************)
RECURSIVE multispace0(_)
multispace0(i) ==
    IF i # <<>> /\ Head(i) \in WS THEN multispace0(Tail(i)) ELSE i

IsPrefix(t, i) == Len(t) <= Len(i) /\ SubSeq(i, 1, Len(t)) = t
Drop(i, n) == SubSeq(i, n + 1, Len(i))

(***************************************************************************)
(* A rule is written as the chain of its steps: each operator does one     *)
(* step and hands what it found to the next as a parameter.                *)
(***************************************************************************)
\* tag(t) at a, then the trailing multispace0
tag_at(t, out, a) ==
    IF IsPrefix(t, a)
    THEN Ok(multispace0(Drop(a, Len(t))), out, 0, TRUE)
    ELSE Error(a, "Tag", 0, TRUE)

\* value(out, delimited(multispace0, tag(t), multispace0))
tag_ws(t, out, input) == tag_at(t, out, multispace0(input))

parse_null(input) == tag_ws(<<"n", "u", "l", "l">>, ValueNull, input)

\* alt: the second alternative when the first returned Err::Error
bool_alt(t, input) ==
    IF IsOk(t) THEN t ELSE tag_ws(<<"f", "a", "l", "s", "e">>, ValueBool(FALSE), input)

parse_bool(input) == bool_alt(tag_ws(<<"t", "r", "u", "e">>, ValueBool(TRUE), input), input)

\* digit0: the number of leading ASCII digits
RECURSIVE CountDigits(_)
CountDigits(i) ==
    IF i # <<>> /\ Head(i) \in DigitSet THEN 1 + CountDigits(Tail(i)) ELSE 0

(***************************************************************************)
(* nom::number::complete::recognize_float:                                 *)
(*   opt(sign), alt((digit1 opt('.' opt(digit1)), '.' digit1)),            *)
(*   opt((alt('e','E'), opt(sign), cut(digit1)))                           *)
(* The answer is the number of characters recognized, or the error; an     *)
(* exponent marker that no digit follows is Err::Failure (cut).            *)
(***************************************************************************)
Recognizes(n) == [tag |-> "Ok", n |-> n, at |-> <<>>, code |-> ""]
Rejects(tag, at, code) == [tag |-> tag, n |-> 0, at |-> at, code |-> code]

opt_sign(i) == IF i # <<>> /\ Head(i) \in {"+", "-"} THEN 1 ELSE 0

\* digit1 matched d digits: opt(pair(char('.'), opt(digit1)))
mantissa_after_int(d, afterInt) ==
    IF afterInt # <<>> /\ Head(afterInt) = "."
    THEN Recognizes(d + 1 + CountDigits(Tail(afterInt)))
    ELSE Recognizes(d)

\* digit1 failed: (char('.'), digit1)
mantissa_dot_first(a) ==
    IF a # <<>> /\ Head(a) = "."
    THEN IF CountDigits(Tail(a)) > 0
         THEN Recognizes(1 + CountDigits(Tail(a)))
         ELSE Rejects("Error", Tail(a), "Digit")
    ELSE Rejects("Error", a, "Char")

mantissa_alt(a, d) ==
    IF d > 0 THEN mantissa_after_int(d, Drop(a, d)) ELSE mantissa_dot_first(a)

recognize_mantissa(a) == mantissa_alt(a, CountDigits(a))

\* after the exponent marker and a sign of s characters: cut(digit1)
exponent_digits(e, s, x) ==
    IF x = 0 THEN Rejects("Failure", Drop(e, 1 + s), "Digit") ELSE Recognizes(1 + s + x)

exponent_sign(e, s) == exponent_digits(e, s, CountDigits(Drop(e, 1 + s)))

recognize_exponent(e) ==
    IF e # <<>> /\ Head(e) \in {"e", "E"}
    THEN exponent_sign(e, opt_sign(Tail(e)))
    ELSE Recognizes(0)

float_exponent(s, m, x) ==
    IF x.tag # "Ok" THEN x ELSE Recognizes(s + m.n + x.n)

float_mantissa(i, s, m) ==
    IF m.tag # "Ok" THEN m ELSE float_exponent(s, m, recognize_exponent(Drop(i, s + m.n)))

float_sign(i, s) == float_mantissa(i, s, recognize_mantissa(Drop(i, s)))

recognize_float(i) == float_sign(i, opt_sign(i))

(***************************************************************************)
(* str::parse::<f64>.  A double is kept as its decimal value in            *)
(* scientific form: the significant digits mant (no leading or trailing    *)
(* zero) and the exponent exp of the first of them, so that two literals   *)
(* denote the same number exactly when the records are equal.  A value of  *)
(* 2^1024 - 2^970 or more rounds to infinity; a value of at most half the  *)
(* least subnormal rounds to zero.  (Literals of more than 15 significant  *)
(* digits, which binary rounding may merge, are beyond the inputs drawn.)  *)
(***************************************************************************)
\* the decimal digits of 2^1024 - 2^970 = 1.797693134862315807937e308
DblMaxDigits == <<1, 7, 9, 7, 6, 9, 3, 1, 3, 4, 8, 6, 2, 3, 1, 5, 8, 0, 7, 9, 3, 7>>
DblMaxExp10 == 308
\* the decimal digits of 2^-1075 = 2.470328229206232720882e-324
DblMinDigits == <<2, 4, 7, 0, 3, 2, 8, 2, 2, 9, 2, 0, 6, 2, 3, 2, 7, 2, 0, 8, 8, 2>>
DblMinExp10 == -324
\* core::num::dec2flt stops accumulating exponent digits from 0x10000 on
ExpSaturate == 65536

\* -1, 0, 1: the order of the decimal fractions 0.m and 0.t
RECURSIVE CmpDigits(_, _)
CmpDigits(m, t) ==
    IF m = <<>> /\ t = <<>> THEN 0
    ELSE IF m = <<>> THEN (IF \E k \in 1..Len(t) : t[k] # 0 THEN -1 ELSE 0)
    ELSE IF t = <<>> THEN (IF \E k \in 1..Len(m) : m[k] # 0 THEN 1 ELSE 0)
    ELSE IF Head(m) < Head(t) THEN -1
    ELSE IF Head(m) > Head(t) THEN 1
    ELSE CmpDigits(Tail(m), Tail(t))

RECURSIVE ExpValue(_, _)
ExpValue(ds, acc) ==
    IF ds = <<>> THEN acc
    ELSE ExpValue(Tail(ds), IF acc < ExpSaturate THEN 10 * acc + DigitVal(Head(ds)) ELSE acc)

RECURSIVE StripLeadingZeros(_)
StripLeadingZeros(ds) ==
    IF ds # <<>> /\ Head(ds) = 0 THEN StripLeadingZeros(Tail(ds)) ELSE ds

RECURSIVE StripTrailingZeros(_)
StripTrailingZeros(ds) ==
    IF ds # <<>> /\ ds[Len(ds)] = 0 THEN StripTrailingZeros(SubSeq(ds, 1, Len(ds) - 1)) ELSE ds

F64(cls, neg, mant, exp) == [cls |-> cls, neg |-> neg, mant |-> mant, exp |-> exp]

\* sig: the significant digits; sci: the decimal exponent of the first
f64_round(neg, sig, sci) ==
    IF sig = <<>> THEN F64("finite", neg, <<>>, 0)
    ELSE IF sci > DblMaxExp10 \/ (sci = DblMaxExp10 /\ CmpDigits(sig, DblMaxDigits) >= 0)
    THEN F64("inf", neg, <<>>, 0)
    ELSE IF sci < DblMinExp10 \/ (sci = DblMinExp10 /\ CmpDigits(sig, DblMinDigits) <= 0)
    THEN F64("finite", neg, <<>>, 0)
    ELSE F64("finite", neg, sig, sci)

\* digs: the digits of the integer part (ni of them) and of the fraction
f64_scale(neg, digs, lead, ni, e) ==
    f64_round(neg, StripTrailingZeros(lead), ni - (Len(digs) - Len(lead)) - 1 + e)

f64_digits(neg, chars, ni, e) ==
    f64_scale(neg, [k \in 1..Len(chars) |-> DigitVal(chars[k])],
              StripLeadingZeros([k \in 1..Len(chars) |-> DigitVal(chars[k])]), ni, e)

\* t: the text after the exponent marker, es the length of its sign
signed_exponent(t, es) ==
    IF es = 1 /\ Head(t) = "-"
    THEN 0 - ExpValue(Drop(t, es), 0)
    ELSE ExpValue(Drop(t, es), 0)

f64_exponent(c) ==
    IF c # <<>> /\ Head(c) \in {"e", "E"}
    THEN signed_exponent(Tail(c), opt_sign(Tail(c)))
    ELSE 0

\* int: the integer digits; b: the text after them
f64_fraction(neg, int, b, nf) ==
    IF b # <<>> /\ Head(b) = "."
    THEN f64_digits(neg, int \o SubSeq(b, 2, 1 + nf), Len(int), f64_exponent(Drop(b, 1 + nf)))
    ELSE f64_digits(neg, int, Len(int), f64_exponent(b))

f64_point(neg, int, b) ==
    f64_fraction(neg, int, b, IF b # <<>> /\ Head(b) = "." THEN CountDigits(Tail(b)) ELSE 0)

f64_int(neg, a, ni) == f64_point(neg, SubSeq(a, 1, ni), Drop(a, ni))

f64_sign(s, sg) == f64_int(sg = 1 /\ Head(s) = "-", Drop(s, sg), CountDigits(Drop(s, sg)))

to_f64(s) == f64_sign(s, opt_sign(s))

\* serde_json::Number::from_f64: None for an infinite or NaN value
from_f64_is_some(num) == num.cls = "finite"

(***************************************************************************)
(* parse_number: map(delimited(multispace0, recognize_float, multispace0), *)
(* |s| Value::Number(from_f64(s.parse::<f64>().unwrap()).unwrap()))        *)
(***************************************************************************)
\* Value::Number(serde_json::Number::from_f64(num).unwrap())
number_value(rest, num) ==
    IF from_f64_is_some(num) THEN Ok(rest, ValueNumber(num), 0, TRUE) ELSE Panic(0, TRUE)

number_map(a, r) ==
    IF r.tag = "Error" THEN Error(r.at, r.code, 0, TRUE)
    ELSE IF r.tag = "Failure" THEN Failure(r.at, r.code, 0, TRUE)
    ELSE number_value(multispace0(Drop(a, r.n)), to_f64(SubSeq(a, 1, r.n)))

number_at(a) == number_map(a, recognize_float(a))

parse_number(input) == number_at(multispace0(input))

(***************************************************************************)
(* parse_escaped_char: char('\\'), then alt of the eight escapes in the    *)
(* order of the source.  A failed alt reports its last alternative's       *)
(* error (nom::error::Error keeps the other operand of `or`).              *)
(***************************************************************************)
EscapeTable ==
    << <<QUOTE, QUOTE>>, <<BACKSLASH, BACKSLASH>>, <<"/", "/">>, <<"n", "\n">>,
       <<"r", "\r">>, <<"t", "\t">>, <<"b", BS>>, <<"f", FF>> >>

CharOk(rest, c) == [tag |-> "Ok", rest |-> rest, out |-> c, code |-> ""]
CharError(at, code) == [tag |-> "Error", rest |-> at, out |-> "", code |-> code]

\* the alternatives of the table that match at i, by their place in it
EscapeHits(i) == {k \in 1..Len(EscapeTable) : i # <<>> /\ Head(i) = EscapeTable[k][1]}

\* value(decoded, char_parser(c)) of the first alternative that matches
escape_alt(i, hits) ==
    IF hits = {} THEN CharError(i, "Char")
    ELSE CharOk(Tail(i), EscapeTable[CHOOSE h \in hits : \A g \in hits : h <= g][2])

\* a decoder that passes a character it does not know through
parse_escaped_char_lenient(input) ==
    IF input = <<>> \/ Head(input) # BACKSLASH THEN CharError(input, "Char")
    ELSE IF Tail(input) = <<>> THEN CharError(Tail(input), "Char")
    ELSE IF EscapeHits(Tail(input)) = {} THEN CharOk(Tail(Tail(input)), Head(Tail(input)))
    ELSE escape_alt(Tail(input), EscapeHits(Tail(input)))

parse_escaped_char(input) ==
    IF input = <<>> \/ Head(input) # BACKSLASH THEN CharError(input, "Char")
    ELSE escape_alt(Tail(input), EscapeHits(Tail(input)))

\* none_of("\"\\")
none_of_quote_backslash(i) ==
    IF i # <<>> /\ Head(i) \notin {QUOTE, BACKSLASH}
    THEN CharOk(Tail(i), Head(i))
    ELSE CharError(i, "NoneOf")

string_char_alt(e, i) == IF e.tag = "Ok" THEN e ELSE none_of_quote_backslash(i)

\* alt((map(parse_escaped_char, |c| c), none_of("\"\\")))
string_char(i) == string_char_alt(parse_escaped_char(i), i)

(***************************************************************************)
(* many0 over string_char: stops at the first Err::Error of its parser;    *)
(* an iteration that succeeded without consuming ends the loop with        *)
(* Err::Error(Many0), nom's guard against an endless loop.                 *)
(***************************************************************************)
RECURSIVE many0_string_char(_, _)

many0_step(i, acc, r) ==
    IF r.tag = "Error" THEN Ok(i, acc, 0, TRUE)
    ELSE IF Len(r.rest) = Len(i) THEN Error(i, "Many0", 0, FALSE)
    ELSE many0_string_char(r.rest, Append(acc, r.out))

many0_string_char(i, acc) == many0_step(i, acc, string_char(i))

\* map(many0(..), |chars| Value::String(..)), then the closing char('"')
string_close(m) ==
    IF ~IsOk(m) THEN m
    ELSE IF m.rest = <<>> \/ Head(m.rest) # QUOTE
    THEN Error(m.rest, "Char", 0, m.steps)
    ELSE Ok(Tail(m.rest), ValueString(m.out), 0, m.steps)

\* delimited(char('"'), map(many0(..), ..), char('"'))
parse_string(input) ==
    IF input = <<>> \/ Head(input) # QUOTE THEN Error(input, "Char", 0, TRUE)
    ELSE string_close(many0_string_char(Tail(input), <<>>))

(***************************************************************************)
(* serde_json::Map: keys to values.  insert replaces the value of a key    *)
(* already present.                                                        *)
(***************************************************************************)
MapNew == <<>>

\* a map whose insert keeps the value a key already has
MapInsertKeepsFirst(m, k, v) ==
    IF k \in DOMAIN m THEN m ELSE [x \in (DOMAIN m) \cup {k} |-> IF x = k THEN v ELSE m[x]]

MapInsert(m, k, v) == [x \in (DOMAIN m) \cup {k} |-> IF x = k THEN v ELSE m[x]]

\* for (key, value) in pairs { if let Value::String(k) = key { map.insert(k, value); } }
RECURSIVE CollectPairs(_, _)
CollectPairs(pairs, m) ==
    IF pairs = <<>> THEN m
    ELSE CollectPairs(Tail(pairs),
                      IF Head(pairs)[1].t = "String"
                      THEN MapInsert(m, Head(pairs)[1].s, Head(pairs)[2])
                      ELSE m)

(***************************************************************************)
(* Array, Object and Value, mutually recursive.  outer is the length of    *)
(* the input of the enclosing parse_array or parse_object invocation.      *)
(***************************************************************************)
RECURSIVE parse_primary(_)

call_result(r, i, outer) == [r EXCEPT !.steps = r.steps /\ Len(i) < outer]

\* the recursive use of parse_primary as a list element or a pair's value
call_primary(i, outer) == call_result(parse_primary(i), i, outer)

pair_result(k, v) ==
    IF ~IsOk(v) THEN [v EXCEPT !.steps = v.steps /\ k.steps]
    ELSE Ok(v.rest, <<k.out, v.out>>, v.depth, v.steps /\ k.steps)

\* b: the input after the key and its trailing multispace0; char(':')
pair_colon(k, b, outer) ==
    IF b = <<>> \/ Head(b) # ":" THEN Error(b, "Char", 0, k.steps)
    ELSE pair_result(k, call_primary(Tail(b), outer))

pair_key(k, outer) ==
    IF ~IsOk(k) THEN k ELSE pair_colon(k, multispace0(k.rest), outer)

\* separated_pair(delimited(multispace0, parse_string, multispace0), char(':'), parse_primary)
key_value(i, outer) == pair_key(parse_string(multispace0(i)), outer)

list_item(kind, i, outer) ==
    IF kind = "Array" THEN call_primary(i, outer) ELSE key_value(i, outer)

(***************************************************************************)
(* separated_list0(sep, f): the first element, then (sep f)*.  An          *)
(* Err::Error of sep or of f ends the list at the input before that sep;   *)
(* any other Err is returned.  An iteration that consumed nothing is       *)
(* Err::Error(SeparatedList).                                              *)
(***************************************************************************)
RECURSIVE separated_list0_loop(_, _, _, _, _, _)

\* a list that ends after a separator no element follows, keeping the
\* elements parsed so far
list_after_item_trailing(kind, i, a, res, outer, depth, steps, el) ==
    IF el.tag = "Error"
    THEN Ok(multispace0(Tail(a)), res, Max(depth, el.depth), steps /\ el.steps)
    ELSE IF ~IsOk(el)
    THEN [el EXCEPT !.depth = Max(depth, el.depth), !.steps = steps /\ el.steps]
    ELSE IF Len(el.rest) = Len(i)
    THEN Error(i, "SeparatedList", Max(depth, el.depth), FALSE)
    ELSE separated_list0_loop(kind, el.rest, Append(res, el.out), outer,
                              Max(depth, el.depth), steps /\ el.steps)

\* el: what the element parser returned after the separator at a
list_after_item(kind, i, a, res, outer, depth, steps, el) ==
    IF el.tag = "Error"
    THEN Ok(i, res, Max(depth, el.depth), steps /\ el.steps)
    ELSE IF ~IsOk(el)
    THEN [el EXCEPT !.depth = Max(depth, el.depth), !.steps = steps /\ el.steps]
    ELSE IF Len(el.rest) = Len(i)
    THEN Error(i, "SeparatedList", Max(depth, el.depth), FALSE)
    ELSE separated_list0_loop(kind, el.rest, Append(res, el.out), outer,
                              Max(depth, el.depth), steps /\ el.steps)

\* the separator delimited(multispace0, char(','), multispace0), tried at a
list_after_sep(kind, i, a, res, outer, depth, steps) ==
    IF a = <<>> \/ Head(a) # "," THEN Ok(i, res, depth, steps)
    ELSE list_after_item(kind, i, a, res, outer, depth, steps,
                         list_item(kind, multispace0(Tail(a)), outer))

separated_list0_loop(kind, i, res, outer, depth, steps) ==
    list_after_sep(kind, i, multispace0(i), res, outer, depth, steps)

list_first(kind, i, outer, first) ==
    IF first.tag = "Error" THEN Ok(i, <<>>, first.depth, first.steps)
    ELSE IF ~IsOk(first) THEN first
    ELSE separated_list0_loop(kind, first.rest, <<first.out>>, outer,
                              first.depth, first.steps)

separated_list0(kind, i, outer) == list_first(kind, i, outer, list_item(kind, i, outer))

\* map(.., Value::Array) or the closure building the Map, then close
bracket_close(kind, close, l, c) ==
    IF c = <<>> \/ Head(c) # close THEN Error(c, "Char", l.depth, l.steps)
    ELSE Ok(multispace0(Tail(c)),
            IF kind = "Array" THEN ValueArray(l.out)
            ELSE ValueObject(CollectPairs(l.out, MapNew)),
            l.depth, l.steps)

bracket_list(kind, close, l) ==
    IF ~IsOk(l) THEN l ELSE bracket_close(kind, close, l, multispace0(l.rest))

bracket_open(kind, open, close, a, outer) ==
    IF a = <<>> \/ Head(a) # open THEN Error(a, "Char", 0, TRUE)
    ELSE bracket_list(kind, close, separated_list0(kind, multispace0(Tail(a)), outer))

\* delimited(open, map(separated_list0(..), build), close), open and close
\* each delimited(multispace0, char(c), multispace0)
bracketed(kind, open, close, input) ==
    bracket_open(kind, open, close, multispace0(input), Len(input))

parse_array(input) == bracketed("Array", "[", "]", input)

parse_object(input) == bracketed("Object", "{", "}", input)

\* the alternatives of parse_primary, in the order of the source
AltOrder == <<"null", "bool", "number", "string", "array", "object">>

rule(name, i) ==
    CASE name = "null" -> parse_null(i)
      [] name = "bool" -> parse_bool(i)
      [] name = "number" -> parse_number(i)
      [] name = "string" -> parse_string(i)
      [] name = "array" -> parse_array(i)
      [] name = "object" -> parse_object(i)

(***************************************************************************)
(* alt: each alternative in turn on the same input; the first result that  *)
(* is not Err::Error is returned, and when all are, the last one's error.  *)
(***************************************************************************)
RECURSIVE alt(_, _, _, _)

alt_next(order, i, depth, steps, r) ==
    IF r.tag = "Error" /\ Len(order) > 1
    THEN alt(Tail(order), i, Max(depth, r.depth), steps /\ r.steps)
    ELSE [r EXCEPT !.depth = Max(depth, r.depth), !.steps = steps /\ r.steps]

alt(order, i, depth, steps) == alt_next(order, i, depth, steps, rule(Head(order), i))

\* one more level of parse_primary on the stack, no trailing multispace0
primary_level(r) == [r EXCEPT !.depth = r.depth + 1]

\* the trailing multispace0 of a successful alt
primary_trailing(r) ==
    IF IsOk(r)
    THEN [r EXCEPT !.rest = multispace0(r.rest), !.depth = r.depth + 1]
    ELSE [r EXCEPT !.depth = r.depth + 1]

\* parse_primary without its leading multispace0
parse_primary_no_leading_ws(input) == primary_trailing(alt(AltOrder, input, 0, TRUE))

\* parse_primary without its trailing multispace0
parse_primary_no_trailing_ws(input) == primary_level(alt(AltOrder, multispace0(input), 0, TRUE))

\* delimited(multispace0, alt((..)), multispace0)
parse_primary(input) == primary_trailing(alt(AltOrder, multispace0(input), 0, TRUE))

(***************************************************************************)
(* The inputs: every concatenation of at most a bounded number of pieces   *)
(* drawn from a small set, a piece being a character or a short run of     *)
(* characters.  Well-formed and malformed texts are both among them.       *)
(***************************************************************************)
MaxNumberPieces == 4
MaxStringPieces == 4
MaxArrayPieces == 5
MaxObjectPieces == 5
MaxDocPieces == 4
MaxValuePieces == 3

RECURSIVE Flatten(_)
Flatten(ps) == IF ps = <<>> THEN <<>> ELSE Head(ps) \o Flatten(Tail(ps))

Concats(P, n) == UNION {{Flatten(f) : f \in [1..k -> P]} : k \in 0..n}

NumberPieces ==
    { <<"-">>, <<"+">>, <<"0">>, <<"1">>, <<".">>, <<"e">>, <<" ">>, <<"x">>,
      <<"e", "9", "9", "9">> }
StringPieces ==
    { <<QUOTE>>, <<BACKSLASH>>, <<"/">>, <<"n">>, <<"r">>, <<"t">>, <<"b">>, <<"f">>,
      <<"u">>, <<"a">>, <<CTRL1>> }
ArrayPieces ==
    { <<"[">>, <<"]">>, <<",">>, <<" ">>, <<"1">>, <<"x">>, <<"f", "a", "l", "s", "e">> }
ObjectPieces ==
    { <<"{">>, <<"}">>, <<",">>, <<" ">>, <<QUOTE, "a", QUOTE, ":", "1">>,
      <<QUOTE, "a", QUOTE, ":", "2">>, <<QUOTE, "b", QUOTE, ":", "1">> }
DocPieces ==
    { <<"[">>, <<"]">>, <<"{">>, <<"}">>, <<",">>, <<" ">>, <<"1">>,
      <<"n", "u", "l", "l">>, <<"t", "r", "u", "e">>, <<QUOTE, "a", QUOTE>>,
      <<QUOTE, "a", QUOTE, ":">> }

(***************************************************************************)
(* The program: main hands the text to parse_primary and matches on the    *)
(* result; the rules below parse_primary are also applied on their own.    *)
(***************************************************************************)
VARIABLES input, pc, called, result, warned

vars == <<input, pc, called, result, warned>>

NoResult == [tag |-> "None", rest |-> <<>>, out |-> Blank, code |-> "", depth |-> 0, steps |-> TRUE]

InitWith(S) ==
    /\ input \in S
    /\ pc = "start"
    /\ called = ""
    /\ result = NoResult
    /\ warned = FALSE

\* str::trim strips Unicode White_Space; of the characters drawn, WS and form feed
IsBlank(s) == \A k \in 1..Len(s) : s[k] \in WS \cup {FF}

PcAfter(r) == IF r.tag = "Panic" THEN "panicked" ELSE "returned"

\* let result = parse_primary(input);
CallPrimary ==
    /\ pc = "start"
    /\ called' = "parse_primary"
    /\ result' = parse_primary(input)
    /\ pc' = PcAfter(result')
    /\ UNCHANGED <<input, warned>>

CallNumber ==
    /\ pc = "start"
    /\ called' = "parse_number"
    /\ result' = parse_number(input)
    /\ pc' = PcAfter(result')
    /\ UNCHANGED <<input, warned>>

CallString ==
    /\ pc = "start"
    /\ called' = "parse_string"
    /\ result' = parse_string(input)
    /\ pc' = PcAfter(result')
    /\ UNCHANGED <<input, warned>>

CallEscapedChar ==
    /\ pc = "start"
    /\ called' = "parse_escaped_char"
    /\ result' = parse_escaped_char(input)
    /\ pc' = PcAfter(result')
    /\ UNCHANGED <<input, warned>>

\* Ok((remaining, value)) => { if !remaining.trim().is_empty() { warn } print value }
MatchOk ==
    /\ pc = "returned" /\ called = "parse_primary" /\ IsOk(result)
    /\ warned' = ~IsBlank(result.rest)
    /\ pc' = "printed"
    /\ UNCHANGED <<input, called, result>>

\* Err(e) => print e
MatchErr ==
    /\ pc = "returned" /\ called = "parse_primary" /\ IsErr(result)
    /\ pc' = "reported"
    /\ UNCHANGED <<input, called, result, warned>>

Main == CallPrimary \/ MatchOk \/ MatchErr

Init == InitWith(Concats(DocPieces, MaxDocPieces))
Next == Main
Spec == Init /\ [][Next]_vars

\* every kind of value, brackets and whitespace: the dispatch of parse_primary
ValuePieces ==
    { <<"n", "u", "l", "l">>, <<"t", "r", "u", "e">>, <<"1">>, <<QUOTE, "a", QUOTE>>,
      <<"[">>, <<"]">>, <<"{">>, <<"}">>, <<" ">> }

InitValue == InitWith(Concats(ValuePieces, MaxValuePieces))
SpecValue == InitValue /\ [][Next]_vars

InitNumber == InitWith(Concats(NumberPieces, MaxNumberPieces))
NextNumber == CallNumber \/ Main
SpecNumber == InitNumber /\ [][NextNumber]_vars

InitString == InitWith(Concats(StringPieces, MaxStringPieces))
NextString == CallEscapedChar \/ CallString \/ Main
SpecString == InitString /\ [][NextString]_vars

InitArray == InitWith(Concats(ArrayPieces, MaxArrayPieces))
SpecArray == InitArray /\ [][Next]_vars

InitObject == InitWith(Concats(ObjectPieces, MaxObjectPieces))
SpecObject == InitObject /\ [][Next]_vars

\* the call named has returned or aborted
Done(name) == pc # "start" /\ called = name

(***************************************************************************)
(* The Number rule                                                         *)
(***************************************************************************)
\* the numeric substring the Number rule recognizes in the input, if any
Recognized == recognize_float(multispace0(input))
RecognizedText == SubSeq(multispace0(input), 1, Recognized.n)
Unrepresentable == Recognized.tag = "Ok" /\ to_f64(RecognizedText).cls # "finite"

\* C1: whenever the Number rule recognizes a numeric substring whose value
\* is not a finite double, the call (parse_number, or parse_primary reaching
\* it) ends in a returned failure: it neither aborts nor yields a number.
C1_UnrepresentableIsReportedFailure ==
    (pc # "start" /\ called \in {"parse_number", "parse_primary"} /\ Unrepresentable)
        => IsErr(result)

(***************************************************************************)
(* The JSON numeric grammar of RFC 8259, as the claim states it: an        *)
(* optional minus; an integer part, "0" or a nonzero digit and digits; an  *)
(* optional fraction, "." and one digit or more; an optional exponent, "e" *)
(* or "E", an optional sign and one digit or more.  JsonNumberLen(a) is    *)
(* the length of the longest prefix of a in it, 0 if there is none.        *)
(***************************************************************************)
JsonNumberLen(a) ==
    LET m == IF a # <<>> /\ Head(a) = "-" THEN 1 ELSE 0
        b == Drop(a, m)
        int == IF b # <<>> /\ Head(b) = "0" THEN 1 ELSE CountDigits(b)
        c == Drop(b, int)
        frac == IF c # <<>> /\ Head(c) = "." /\ CountDigits(Tail(c)) > 0
                THEN 1 + CountDigits(Tail(c)) ELSE 0
        d == Drop(c, frac)
        sg == IF d # <<>> /\ Head(d) \in {"e", "E"} THEN opt_sign(Tail(d)) ELSE 0
        ex == IF d # <<>> /\ Head(d) \in {"e", "E"} /\ CountDigits(Drop(d, 1 + sg)) > 0
              THEN 1 + sg + CountDigits(Drop(d, 1 + sg)) ELSE 0
    IN  IF int = 0 THEN 0 ELSE m + int + frac + ex

\* C3: parse_number succeeds exactly when the input, after leading
\* whitespace, begins with a substring of the JSON numeric grammar; it then
\* consumes the longest such substring and the whitespace around it, and on
\* every other input it returns a failure.
C3_NumberIsJsonGrammar ==
    Done("parse_number") =>
        LET a == multispace0(input)
            n == JsonNumberLen(a)
        IN  /\ IsOk(result) <=> n > 0
            /\ IsOk(result) => result.rest = multispace0(Drop(a, n))
            /\ n = 0 => IsErr(result)

(***************************************************************************)
(* Arrays and objects                                                      *)
(*                                                                         *)
(* ListWalk follows an element list from item position i (the position    *)
(* after the opening bracket, or after a separator), n items being parsed  *)
(* already: it answers how many items parse, and whether the list stops at *)
(* an item that does not parse ("item", with that item's position and      *)
(* result) or at a place no separator follows ("separator", with the       *)
(* input left there).                                                      *)
(***************************************************************************)
RECURSIVE ListWalk(_, _, _, _)
ListWalk(kind, i, n, outer) ==
    LET el == list_item(kind, i, outer)
        a == multispace0(el.rest)
    IN  IF ~IsOk(el)
        THEN [count |-> n, stop |-> "item", at |-> i, item |-> el, rest |-> i]
        ELSE IF a = <<>> \/ Head(a) # ","
        THEN [count |-> n + 1, stop |-> "separator", at |-> <<>>, item |-> NoResult,
              rest |-> el.rest]
        ELSE ListWalk(kind, multispace0(Tail(a)), n + 1, outer)

\* the input after leading whitespace, and what follows its first character
Trimmed == multispace0(input)
Opener == IF Trimmed = <<>> THEN "" ELSE Head(Trimmed)
Inside == IF Trimmed = <<>> THEN <<>> ELSE multispace0(Tail(Trimmed))
NextIs(i, c) == i # <<>> /\ Head(i) = c

\* the result of parsing the value of the pair at item position i, when its
\* key and its colon are there
PairValue(i) ==
    LET k == parse_string(multispace0(i))
        b == multispace0(k.rest)
    IN  IF IsOk(k) /\ NextIs(b, ":") THEN parse_primary(Tail(b)) ELSE NoResult

\* the failure of the array element, or of the object value, that stopped the
\* element list of the input (tag "None" when there is no such failure)
NestedFailure ==
    LET kind == IF Opener = "[" THEN "Array" ELSE "Object"
        w == ListWalk(kind, Inside, 0, Len(Trimmed))
        nested == IF kind = "Array" THEN w.item ELSE PairValue(w.at)
    IN  IF Opener \in {"[", "{"} /\ w.stop = "item" /\ IsErr(nested)
        THEN nested ELSE NoResult

\* C2: when parse_primary fails because an array element or an object value
\* fails to parse, the error it returns is that nested failure unchanged:
\* the same kind of error at the same input position.
C2_NestedFailureUnchanged ==
    (Done("parse_primary") /\ IsErr(result) /\ IsErr(NestedFailure)) =>
        /\ result.tag = NestedFailure.tag
        /\ result.rest = NestedFailure.rest
        /\ result.code = NestedFailure.code

\* the text the successful call consumed, whitespace removed
RECURSIVE Squeeze(_)
Squeeze(t) ==
    IF t = <<>> THEN <<>>
    ELSE IF Head(t) \in WS THEN Squeeze(Tail(t))
    ELSE <<Head(t)>> \o Squeeze(Tail(t))

Consumed == Squeeze(SubSeq(input, 1, Len(input) - Len(result.rest)))

\* C4: on an input beginning with '[', an element position that does not
\* parse (the empty position after a trailing comma included) or a missing
\* ']' makes parse_primary return a failure, never an Array of the elements
\* parsed before; a success holds every element of the text it consumed,
\* and "[]" is the empty Array.
C4_NoPartialArray ==
    (Done("parse_primary") /\ Opener = "[") =>
        LET w == ListWalk("Array", Inside, 0, Len(Trimmed))
            empty == w.count = 0 /\ NextIs(Inside, "]")
            closed == w.stop = "separator" /\ NextIs(multispace0(w.rest), "]")
        IN  /\ (w.stop = "item" /\ IsErr(w.item) /\ ~empty) => IsErr(result)
            /\ (w.stop = "separator" /\ ~closed) => IsErr(result)
            /\ empty => (IsOk(result) /\ result.out = ValueArray(<<>>)
                          /\ result.rest = multispace0(Tail(Inside)))
            /\ IsOk(result) =>
                  /\ result.out.t = "Array"
                  /\ empty \/ closed
                  /\ Len(result.out.a) = w.count
                  /\ Len(Consumed) >= 2
                  /\ Consumed[Len(Consumed)] = "]"
                  /\ Consumed[Len(Consumed) - 1] # ","

\* an array of two elements parsed, and a trailing comma refused
C4_Witness ==
    /\ Done("parse_primary") /\ Opener = "["
    /\ \/ IsOk(result) /\ Len(result.out.a) = 2
       \/ /\ IsErr(result)
          /\ ListWalk("Array", Inside, 0, Len(Trimmed)).count = 1
          /\ ListWalk("Array", Inside, 0, Len(Trimmed)).stop = "item"

\* the key-value pairs of the object text, in source order: <<key, value>>
\* with key the characters of the key string
SourcePairs ==
    LET l == separated_list0("Object", Inside, Len(Trimmed))
    IN  [k \in 1..Len(l.out) |-> <<l.out[k][1].s, l.out[k][2]>>]

\* C5: the mapping of a successfully parsed object has exactly the keys of
\* the pairs of the source text (none is dropped), and each key maps to the
\* value of its last occurrence.
C5_LastKeyWins ==
    (Done("parse_primary") /\ IsOk(result) /\ result.out.t = "Object") =>
        LET ps == SourcePairs
            m == result.out.o
        IN  /\ DOMAIN m = {ps[k][1] : k \in 1..Len(ps)}
            /\ \A k \in 1..Len(ps) :
                  (\A j \in (k + 1)..Len(ps) : ps[j][1] # ps[k][1]) => m[ps[k][1]] = ps[k][2]

\* an object whose text gives one key twice, with different values
C5_Witness ==
    /\ Done("parse_primary") /\ IsOk(result) /\ result.out.t = "Object"
    /\ \E j, k \in 1..Len(SourcePairs) :
          /\ j < k
          /\ SourcePairs[j][1] = SourcePairs[k][1]
          /\ SourcePairs[j][2] # SourcePairs[k][2]

(***************************************************************************)
(* Strings                                                                 *)
(***************************************************************************)
\* the table of the claim: the character after the backslash, decoded
Escapable == {QUOTE, BACKSLASH, "/", "n", "r", "t", "b", "f"}
Decoded(c) ==
    CASE c = QUOTE -> QUOTE
      [] c = BACKSLASH -> BACKSLASH
      [] c = "/" -> "/"
      [] c = "n" -> "\n"
      [] c = "r" -> "\r"
      [] c = "t" -> "\t"
      [] c = "b" -> BS
      [] c = "f" -> FF

\* a string body, read from its first character, meets a backslash that no
\* escapable character follows before it meets the closing quote
RECURSIVE HasBadEscape(_)
HasBadEscape(t) ==
    IF t = <<>> \/ Head(t) = QUOTE THEN FALSE
    ELSE IF Head(t) = BACKSLASH
    THEN IF Len(t) >= 2 /\ t[2] \in Escapable THEN HasBadEscape(Drop(t, 2)) ELSE TRUE
    ELSE HasBadEscape(Tail(t))

\* C6: on an input starting with a backslash, parse_escaped_char consumes
\* two characters and yields the one character the table gives for the
\* second; for any other second character ('u' included) it fails, and a
\* string literal holding such a sequence makes parse_string fail.
C6_EscapeTable ==
    /\ (Done("parse_escaped_char") /\ NextIs(input, BACKSLASH)) =>
          IF Len(input) >= 2 /\ input[2] \in Escapable
          THEN /\ result.tag = "Ok"
               /\ result.rest = Drop(input, 2)
               /\ result.out = Decoded(input[2])
          ELSE result.tag = "Error"
    /\ (Done("parse_string") /\ NextIs(input, QUOTE) /\ HasBadEscape(Tail(input))) =>
          IsErr(result)

\* an escape decoded to a control character, and "\u" refused in a literal
C6_Witness ==
    \/ /\ Done("parse_escaped_char") /\ result.tag = "Ok"
       /\ input[2] = "n" /\ result.out = "\n" /\ result.rest # <<>>
    \/ /\ Done("parse_string") /\ IsErr(result)
       /\ Len(input) = 4 /\ input[2] = BACKSLASH /\ input[3] = "u" /\ input[4] = QUOTE

(***************************************************************************)
(* The Value rule                                                          *)
(***************************************************************************)
\* the result of each of the six rules at the position after the leading
\* whitespace
RuleResults == [n \in {AltOrder[k] : k \in 1..Len(AltOrder)} |-> rule(n, Trimmed)]

\* the orders in which the six alternatives can be tried
Orders == Permutations(1..Len(AltOrder))

\* the result of trying the rules in order p from its k-th on: the first
\* that is not a recoverable error, the last one's error when all are
RECURSIVE FirstOf(_, _, _)
FirstOf(rs, p, k) ==
    LET r == rs[AltOrder[p[k]]]
    IN  IF r.tag = "Error" /\ k < Len(AltOrder) THEN FirstOf(rs, p, k + 1) ELSE r

SourceOrder == [k \in 1..Len(AltOrder) |-> k]

\* C7: parse_primary skips leading whitespace and returns the first success
\* of Null, Boolean, Number, String, Array, Object in that order; at most
\* one of the six succeeds at a position, so every order of the
\* alternatives gives the same value and remaining input; and it fails
\* exactly when all six fail.
C7_FirstSuccessAnyOrder ==
    Done("parse_primary") =>
        LET rs == RuleResults
            first == FirstOf(rs, SourceOrder, 1)
        IN  /\ result.tag = first.tag
            /\ result.out = first.out
            /\ IsOk(result) => result.rest = multispace0(first.rest)
            /\ Cardinality({n \in DOMAIN rs : IsOk(rs[n])}) <= 1
            /\ \A p \in Orders :
                  LET r == FirstOf(rs, p, 1)
                  IN  /\ IsOk(r) <=> IsOk(first)
                      /\ IsOk(r) => (r.out = first.out /\ r.rest = first.rest)
            /\ IsErr(result) <=> \A n \in DOMAIN rs : IsErr(rs[n])

\* a value of the fifth alternative returned after leading whitespace, the
\* four rules before it having failed at that position
C7_Witness ==
    /\ Done("parse_primary") /\ IsOk(result) /\ result.out.t = "Array"
    /\ NextIs(input, " ")
    /\ \A k \in 1..4 : IsErr(RuleResults[AltOrder[k]])

\* C10: the remaining input of a successful parse_primary is a proper suffix
\* of the input it was given, and is empty or begins with a character that
\* is not whitespace.
C10_RestIsTrimmedProperSuffix ==
    (Done("parse_primary") /\ IsOk(result)) =>
        /\ Len(result.rest) < Len(input)
        /\ result.rest = Drop(input, Len(input) - Len(result.rest))
        /\ result.rest = <<>> \/ Head(result.rest) \notin WS

\* a string value followed by whitespace and more text
C10_Witness ==
    /\ Done("parse_primary") /\ IsOk(result) /\ result.out.t = "String"
    /\ result.rest # <<>>
    /\ input[Len(input) - Len(result.rest)] \in WS

(***************************************************************************)
(* Termination                                                             *)
(***************************************************************************)
\* the bracket and brace nesting depth of a text: the most openers pending
\* at any point of it
RECURSIVE NestingFrom(_, _)
NestingFrom(t, open) ==
    IF t = <<>> THEN open
    ELSE LET now == IF Head(t) \in {"[", "{"} THEN open + 1
                    ELSE IF Head(t) \in {"]", "}"} THEN Max(open - 1, 0)
                    ELSE open
         IN  Max(open, NestingFrom(Tail(t), now))

NestingDepth(t) == NestingFrom(t, 0)

\* every recursive call got a shorter input, every repetition iteration
\* consumed a character, and the recursion is no deeper than the nesting of
\* the input plus one
MeasuresHold ==
    Done("parse_primary") =>
        /\ result.steps
        /\ result.depth <= NestingDepth(input) + 1

\* C9: on every input parse_primary terminates with a success or a failure,
\* each recursive parse_primary call having received a strictly shorter
\* input, each repetition iteration having consumed a character, and the
\* recursion never deeper than the nesting depth of the input plus one.
C9_TerminatesWithResult ==
    Done("parse_primary") =>
        /\ IsOk(result) \/ IsErr(result)
        /\ result.steps
        /\ result.depth <= NestingDepth(input) + 1

(***************************************************************************)
(* Round trip.  The repository has no serializer; this is the canonical    *)
(* JSON text of a value as RFC 8259 fixes it: a control character below    *)
(* U+0020 must be escaped, and one without a two-character escape has only *)
(* the form \u00XX.  A number is written in scientific form, which         *)
(* recognize_float reads back.                                             *)
(***************************************************************************)
RECURSIVE NatText(_)
NatText(n) == IF n < 10 THEN <<Digits[n + 1]>> ELSE NatText(n \div 10) \o <<Digits[(n % 10) + 1]>>

SerializeNumber(n) ==
    LET sign == IF n.neg THEN <<"-">> ELSE <<>>
        ds == [k \in 1..Len(n.mant) |-> Digits[n.mant[k] + 1]]
        frac == IF Len(ds) > 1 THEN <<".">> \o Tail(ds) ELSE <<>>
        ex == IF n.exp < 0 THEN <<"e", "-">> \o NatText(0 - n.exp) ELSE <<"e">> \o NatText(n.exp)
    IN  IF n.mant = <<>> THEN sign \o <<"0">>
        ELSE sign \o <<Head(ds)>> \o frac \o ex

SerializeChar(c) ==
    CASE c = QUOTE -> <<BACKSLASH, QUOTE>>
      [] c = BACKSLASH -> <<BACKSLASH, BACKSLASH>>
      [] c = "\n" -> <<BACKSLASH, "n">>
      [] c = "\r" -> <<BACKSLASH, "r">>
      [] c = "\t" -> <<BACKSLASH, "t">>
      [] c = BS -> <<BACKSLASH, "b">>
      [] c = FF -> <<BACKSLASH, "f">>
      [] c = CTRL1 -> <<BACKSLASH, "u", "0", "0", "0", "1">>
      [] OTHER -> <<c>>

SerializeString(cs) ==
    <<QUOTE>> \o Flatten([k \in 1..Len(cs) |-> SerializeChar(cs[k])]) \o <<QUOTE>>

RECURSIVE Serialize(_)
RECURSIVE SerializeItems(_)
RECURSIVE SerializeMembers(_, _)

SerializeItems(vs) ==
    IF vs = <<>> THEN <<>>
    ELSE IF Len(vs) = 1 THEN Serialize(Head(vs))
    ELSE Serialize(Head(vs)) \o <<",">> \o SerializeItems(Tail(vs))

SerializeMembers(m, keys) ==
    IF keys = {} THEN <<>>
    ELSE LET k == CHOOSE x \in keys : TRUE
             member == SerializeString(k) \o <<":">> \o Serialize(m[k])
         IN  IF keys = {k} THEN member
             ELSE member \o <<",">> \o SerializeMembers(m, keys \ {k})

Serialize(v) ==
    CASE v.t = "Null" -> <<"n", "u", "l", "l">>
      [] v.t = "Bool" -> IF v.b THEN <<"t", "r", "u", "e">> ELSE <<"f", "a", "l", "s", "e">>
      [] v.t = "Number" -> SerializeNumber(v.n)
      [] v.t = "String" -> SerializeString(v.s)
      [] v.t = "Array" -> <<"[">> \o SerializeItems(v.a) \o <<"]">>
      [] v.t = "Object" -> <<"{">> \o SerializeMembers(v.o, DOMAIN v.o) \o <<"}">>

\* C8: the canonical JSON text of every value parse_primary returns parses
\* again, to a value equal to the first.
C8_RoundTrip ==
    (Done("parse_primary") /\ IsOk(result)) =>
        LET again == parse_primary(Serialize(result.out))
        IN  IsOk(again) /\ again.out = result.out

\* the same, for the values that hold no control character lacking a
\* two-character escape
RECURSIVE HasBareControl(_)
HasBareControl(v) ==
    \/ v.t = "String" /\ \E k \in 1..Len(v.s) : v.s[k] = CTRL1
    \/ v.t = "Array" /\ \E k \in 1..Len(v.a) : HasBareControl(v.a[k])
    \/ v.t = "Object" /\ \E k \in DOMAIN v.o :
          (\E j \in 1..Len(k) : k[j] = CTRL1) \/ HasBareControl(v.o[k])

RoundTripWithoutBareControl ==
    (Done("parse_primary") /\ IsOk(result) /\ ~HasBareControl(result.out)) =>
        LET again == parse_primary(Serialize(result.out))
        IN  IsOk(again) /\ again.out = result.out /\ again.rest = <<>>

=============================================================================
